---- MODULE Spec2Model ----
(***************************************************************************)
(* Model of elektronn3/data/transformations.py: the homogeneous matrix     *)
(* builders, the random transform samplers, the coordinate grids, the      *)
(* resampling kernels, warp_slice and its two assemblers.                  *)
(*                                                                         *)
(* Numbers.  floatX values are modelled as exact rationals [n, d] (d > 0,  *)
(* lowest terms); every value the model feeds in is a small dyadic or      *)
(* decimal fraction.  np.floor, np.ceil, np.round (half to even) and       *)
(* np.int32() (truncation toward zero) are modelled by what they do.       *)
(* A 4x4 matrix is [m, d]: the integer numerators m[i][j] over one common  *)
(* positive denominator d, indices 0..3 as in the source.                  *)
(***************************************************************************)
EXTENDS Integers, Sequences, FiniteSets, TLC

----------------------------------------------------------------------------
(* Rational arithmetic *)

Abs(x) == IF x < 0 THEN -x ELSE x

RECURSIVE GCD(_, _)
GCD(a, b) == IF b = 0 THEN a ELSE GCD(b, a % b)

LCM(a, b) == (a * b) \div GCD(a, b)

\* Undef stands for a value nothing constrains (an unchecked read outside an
\* array: any float, NaN included); no arithmetic turns it into a number.
Undef == [n |-> 1, d |-> 0]

Rat(n, d) ==
  IF d = 0 THEN Undef
  ELSE LET g == GCD(Abs(n), Abs(d))
           s == IF d < 0 THEN -1 ELSE 1
       IN  [n |-> (s * n) \div g, d |-> (s * d) \div g]

RInt(k) == [n |-> k, d |-> 1]
RAdd(a, b) == Rat(a.n * b.d + b.n * a.d, a.d * b.d)
RNeg(a) == [n |-> -a.n, d |-> a.d]
RSub(a, b) == RAdd(a, RNeg(b))
RMul(a, b) == Rat(a.n * b.n, a.d * b.d)
RDiv(a, b) == Rat(a.n * b.d, a.d * b.n)
RLt(a, b) == a.n * b.d < b.n * a.d
RLe(a, b) == a.n * b.d <= b.n * a.d
RMin(a, b) == IF RLt(b, a) THEN b ELSE a
RMax(a, b) == IF RLt(a, b) THEN b ELSE a

\* np.floor / np.ceil
Floor(a) == a.n \div a.d
Ceil(a) == -((-a.n) \div a.d)
\* np.int32(float): truncation toward zero
Trunc(a) == IF a.n >= 0 THEN a.n \div a.d ELSE -((-a.n) \div a.d)
\* np.round: round half to even
Round(a) ==
  LET f == Floor(a)
      r2 == 2 * (a.n - f * a.d)
  IN  IF r2 < a.d THEN f
      ELSE IF r2 > a.d THEN f + 1
      ELSE IF f % 2 = 0 THEN f ELSE f + 1

\* np.clip(x, lo, hi)
Clip(x, lo, hi) == RMin(RMax(x, lo), hi)

MinOfSet(S) == CHOOSE x \in S : \A y \in S : x <= y
MaxOfSet(S) == CHOOSE x \in S : \A y \in S : y <= x

----------------------------------------------------------------------------
(* 4x4 matrices over a common denominator *)

Ix4 == 0 .. 3
Ix3 == 0 .. 2

RECURSIVE GCDSeq(_, _)
GCDSeq(s, acc) == IF s = << >> THEN acc ELSE GCDSeq(Tail(s), GCD(Abs(Head(s)), acc))

RECURSIVE LCMSeq(_, _)
LCMSeq(s, acc) == IF s = << >> THEN acc ELSE LCMSeq(Tail(s), LCM(Head(s), acc))

\* An array whose entries are computed once, when it is built (np.array,
\* np.empty and the assignments that fill it): the same function as f.
stored(f) == f @@ << >>

\* a 4x4 array, indices 0..3, from its entries
stored4(f) == stored([i \in Ix4 |-> stored(f[i])])

Flat(f) == stored([k \in 1 .. 16 |-> f[(k - 1) \div 4][(k - 1) % 4]])

\* lowest terms, positive denominator
MatNorm(m, d) ==
  LET g == GCDSeq(Flat(m), Abs(d))
      s == IF d < 0 THEN -1 ELSE 1
  IN  [m |-> stored4([i \in Ix4 |-> [j \in Ix4 |-> (s * m[i][j]) \div g]]), d |-> (s * d) \div g]

\* np.array([[...], [...], [...], [...]], dtype=floatX) from four rows of rationals
Array4(rows) ==
  LET d == LCMSeq(stored([k \in 1 .. 16 |-> rows[((k - 1) \div 4) + 1][((k - 1) % 4) + 1].d]), 1)
  IN  MatNorm(stored4([i \in Ix4 |-> [j \in Ix4 |-> rows[i + 1][j + 1].n * (d \div rows[i + 1][j + 1].d)]]), d)

Entry(M, i, j) == Rat(M.m[i][j], M.d)

Zero == RInt(0)
One == RInt(1)
Half == [n |-> 1, d |-> 2]

\* np.eye(4)
eye4 == [m |-> [i \in Ix4 |-> [j \in Ix4 |-> IF i = j THEN 1 ELSE 0]], d |-> 1]

identity == eye4

translate(dz, dy, dx) ==
  Array4(<< <<One, Zero, Zero, dz>>,
            <<Zero, One, Zero, dy>>,
            <<Zero, Zero, One, dx>>,
            <<Zero, Zero, Zero, One>> >>)

\* An angle is carried by its cosine and sine, [c, s], both rationals.
Angle(c, s) == [c |-> c, s |-> s]
NegAngle(a) == [c |-> a.c, s |-> RNeg(a.s)]

rotate_z(a) ==
  Array4(<< <<One, Zero, Zero, Zero>>,
            <<Zero, a.c, RNeg(a.s), Zero>>,
            <<Zero, a.s, a.c, Zero>>,
            <<Zero, Zero, Zero, One>> >>)

rotate_y(a) ==
  Array4(<< <<a.c, RNeg(a.s), Zero, Zero>>,
            <<a.s, a.c, Zero, Zero>>,
            <<Zero, Zero, One, Zero>>,
            <<Zero, Zero, Zero, One>> >>)

rotate_x(a) ==
  Array4(<< <<a.c, Zero, a.s, Zero>>,
            <<Zero, One, Zero, Zero>>,
            <<RNeg(a.s), Zero, a.c, Zero>>,
            <<Zero, Zero, Zero, One>> >>)

scale_inv(mz, my, mx) ==
  Array4(<< <<RDiv(One, mz), Zero, Zero, Zero>>,
            <<Zero, RDiv(One, my), Zero, Zero>>,
            <<Zero, Zero, RDiv(One, mx), Zero>>,
            <<Zero, Zero, Zero, One>> >>)

scale(mz, my, mx) ==
  Array4(<< <<mz, Zero, Zero, Zero>>,
            <<Zero, my, Zero, Zero>>,
            <<Zero, Zero, mx, Zero>>,
            <<Zero, Zero, Zero, One>> >>)

\* np.dot(A, B) of two 4x4 matrices
dot(A, B) ==
  MatNorm(stored4([i \in Ix4 |-> [j \in Ix4 |->
             A.m[i][0] * B.m[0][j] + A.m[i][1] * B.m[1][j]
           + A.m[i][2] * B.m[2][j] + A.m[i][3] * B.m[3][j]]]),
          A.d * B.d)

\* the buggy variant: operands exchanged
dot_swapped(A, B) ==
  MatNorm(stored4([i \in Ix4 |-> [j \in Ix4 |->
             B.m[i][0] * A.m[0][j] + B.m[i][1] * A.m[1][j]
           + B.m[i][2] * A.m[2][j] + B.m[i][3] * A.m[3][j]]]),
          A.d * B.d)

\* functools.reduce(f, seq, init), seq a sequence, f the reducer
RECURSIVE reduce_dot(_, _)
reduce_dot(mat_list, acc) ==
  IF mat_list = << >> THEN acc
  ELSE reduce_dot(Tail(mat_list), dot(acc, Head(mat_list)))

RECURSIVE reduce_dot_reversed(_, _)
reduce_dot_reversed(mat_list, acc) ==
  IF mat_list = << >> THEN acc
  ELSE reduce_dot_reversed(Tail(mat_list), dot_swapped(acc, Head(mat_list)))

chain_matrices_reversed(mat_list) == reduce_dot_reversed(mat_list, identity)

chain_matrices(mat_list) == reduce_dot(mat_list, identity)

\* M applied to the homogeneous column vector (c[1], c[2], c[3], 1) of an
\* integer point c: the numerators of the four components, over M.d
MatVec(M, c) ==
  stored([i \in Ix4 |-> M.m[i][0] * c[1] + M.m[i][1] * c[2] + M.m[i][2] * c[3] + M.m[i][3]])

\* np.linalg.inv(M.astype(np.float64)).astype(floatX), exact: adj(m) * d / det(m)
Skip(i) == [k \in 1 .. 3 |-> IF k - 1 < i THEN k - 1 ELSE k]

Minor(m, i, j) ==
  LET r == Skip(i)
      c == Skip(j)
  IN    m[r[1]][c[1]] * (m[r[2]][c[2]] * m[r[3]][c[3]] - m[r[2]][c[3]] * m[r[3]][c[2]])
      - m[r[1]][c[2]] * (m[r[2]][c[1]] * m[r[3]][c[3]] - m[r[2]][c[3]] * m[r[3]][c[1]])
      + m[r[1]][c[3]] * (m[r[2]][c[1]] * m[r[3]][c[2]] - m[r[2]][c[2]] * m[r[3]][c[1]])

Cofactor(m, i, j) == IF (i + j) % 2 = 0 THEN Minor(m, i, j) ELSE -Minor(m, i, j)

Det(m) == m[0][0] * Cofactor(m, 0, 0) + m[0][1] * Cofactor(m, 0, 1)
        + m[0][2] * Cofactor(m, 0, 2) + m[0][3] * Cofactor(m, 0, 3)

inv(M) == MatNorm(stored4([i \in Ix4 |-> [j \in Ix4 |-> M.d * Cofactor(M.m, j, i)]]), Det(M.m))

----------------------------------------------------------------------------
(* Volumes, coordinate grids and the resampling kernels *)

\* A volume source (an h5py.Dataset): its shape and its content.  The content
\* is a fixed function of the voxel index, chosen by vol.pat.
Val(vol, c, z, y, x) ==
  CASE vol.pat = 1 -> 100 * c + 16 * z + 4 * y + x + 1
    [] vol.pat = 2 -> (z * z + 2 * y * y + 3 * x * x + 5 * c + z * y * x + c * x) % 7
    [] OTHER -> IF c = (z + y + x) % 3 THEN 1 ELSE 0

\* absent optional arguments and results
NoVol == [shape |-> << >>, pat |-> 0]
NoShape == << >>
NoArr == << >>
NoIx == [none |-> TRUE, ix |-> {}]
NoVec == [none |-> TRUE, ix |-> << >>]

Axes == 1 .. 3
Voxels(sh) == (0 .. sh[1] - 1) \X (0 .. sh[2] - 1) \X (0 .. sh[3] - 1)

\* make_dest_corners(sh): the 8 corners {0, sh[i]-1}^3 (homogeneous 1 implied)
make_dest_corners(sh) ==
  {<<b[1] * (sh[1] - 1), b[2] * (sh[2] - 1), b[3] * (sh[3] - 1)>> : b \in {0, 1} \X {0, 1} \X {0, 1}}

\* make_dest_coords(sh): every voxel index of the patch (homogeneous 1 implied)
make_dest_coords(sh) == Voxels(sh)

\* np.any(M[3,:3] != 0)
any_persp(M) == \E j \in Ix3 : M.m[3][j] # 0

\* np.dot(M_inv, c), followed by the homogeneous divide when asked for:
\* the three spatial source coordinates of destination point c
src_point(M_inv, divide, c) ==
  LET N == MatVec(M_inv, c)
  IN  stored([a \in Axes |-> Rat(N[a - 1], IF divide THEN N[3] ELSE M_inv.d)])

\* a 3-D sub-array of channel ch of vol, starting at org, of shape sh
Cut(vol, ch, org, sh) == [vol |-> vol, ch |-> ch, org |-> org, sh |-> sh]

\* src[u, v, w] inside a numba nopython kernel: a negative index wraps once,
\* and no bounds are checked, so an index still outside reads whatever is
\* there (Undef).
wrap(i, n) == IF i < 0 THEN i + n ELSE i
in_cut(src, u, v, w) ==
  /\ wrap(u, src.sh[1]) \in 0 .. src.sh[1] - 1
  /\ wrap(v, src.sh[2]) \in 0 .. src.sh[2] - 1
  /\ wrap(w, src.sh[3]) \in 0 .. src.sh[3] - 1
getitem(src, u, v, w) ==
  IF in_cut(src, u, v, w)
  THEN RInt(Val(src.vol, src.ch, src.org[1] + wrap(u, src.sh[1]),
                src.org[2] + wrap(v, src.sh[2]), src.org[3] + wrap(w, src.sh[3])))
  ELSE Undef

map_coordinates_nearest(src, coords, lo) ==
  LET u == Round(RSub(coords[1], lo[1]))
      v == Round(RSub(coords[2], lo[2]))
      w == Round(RSub(coords[3], lo[3]))
  IN  getitem(src, u, v, w)

\* the trilinear kernel, and the variant with the weights of the two
\* neighbours along z exchanged
map_coordinates_linear_swapped(src, coords, lo) ==
  LET u == RSub(coords[1], lo[1])
      v == RSub(coords[2], lo[2])
      w == RSub(coords[3], lo[3])
      u0 == Trunc(u)
      u1 == u0 + 1
      du == RSub(One, RSub(u, RInt(u0)))
      v0 == Trunc(v)
      v1 == v0 + 1
      dv == RSub(v, RInt(v0))
      w0 == Trunc(w)
      w1 == w0 + 1
      dw == RSub(w, RInt(w0))
      nu == RSub(One, du)
      nv == RSub(One, dv)
      nw == RSub(One, dw)
      t(x, a, b, c) == RMul(RMul(RMul(x, a), b), c)
  IN  RAdd(RAdd(RAdd(RAdd(RAdd(RAdd(RAdd(
        t(getitem(src, u0, v0, w0), nu, nv, nw),
        t(getitem(src, u1, v0, w0), du, nv, nw)),
        t(getitem(src, u0, v1, w0), nu, dv, nw)),
        t(getitem(src, u0, v0, w1), nu, nv, dw)),
        t(getitem(src, u1, v0, w1), du, nv, dw)),
        t(getitem(src, u0, v1, w1), nu, dv, dw)),
        t(getitem(src, u1, v1, w0), du, dv, nw)),
        t(getitem(src, u1, v1, w1), du, dv, dw))
map_coordinates_linear(src, coords, lo) ==
  LET u == RSub(coords[1], lo[1])
      v == RSub(coords[2], lo[2])
      w == RSub(coords[3], lo[3])
      u0 == Trunc(u)
      u1 == u0 + 1
      du == RSub(u, RInt(u0))
      v0 == Trunc(v)
      v1 == v0 + 1
      dv == RSub(v, RInt(v0))
      w0 == Trunc(w)
      w1 == w0 + 1
      dw == RSub(w, RInt(w0))
      nu == RSub(One, du)
      nv == RSub(One, dv)
      nw == RSub(One, dw)
      t(x, a, b, c) == RMul(RMul(RMul(x, a), b), c)
  IN  RAdd(RAdd(RAdd(RAdd(RAdd(RAdd(RAdd(
        t(getitem(src, u0, v0, w0), nu, nv, nw),
        t(getitem(src, u1, v0, w0), du, nv, nw)),
        t(getitem(src, u0, v1, w0), nu, dv, nw)),
        t(getitem(src, u0, v0, w1), nu, nv, dw)),
        t(getitem(src, u1, v0, w1), du, nv, dw)),
        t(getitem(src, u0, v1, w1), nu, dv, dw)),
        t(getitem(src, u1, v1, w0), du, dv, nw)),
        t(getitem(src, u1, v1, w1), du, dv, dw))

\* the index window src[u0:u1, v0:v1, w0:w1] of map_coordinates_max_kernel
max_kernel_window(src, coords, lo, k) ==
  LET kz == RMin(Rat(1, 2), RDiv(k, RInt(2)))
      u == RSub(coords[1], lo[1])
      v == RSub(coords[2], lo[2])
      w == RSub(coords[3], lo[3])
      cl(x, n) == Round(RMax(Zero, RMin(RInt(n), x)))
  IN  [u0 |-> cl(RSub(u, kz), src.sh[1]), u1 |-> cl(RAdd(u, kz), src.sh[1]),
       v0 |-> cl(RSub(v, k), src.sh[2]),  v1 |-> cl(RAdd(v, k), src.sh[2]),
       w0 |-> cl(RSub(w, k), src.sh[3]),  w1 |-> cl(RAdd(w, k), src.sh[3])]

window_voxels(r) == (r.u0 .. r.u1 - 1) \X (r.v0 .. r.v1 - 1) \X (r.w0 .. r.w1 - 1)

\* .max() of an empty slice raises (zero-size array to reduction operation)
max_kernel_raises(src, coords, lo, k) == window_voxels(max_kernel_window(src, coords, lo, k)) = {}

map_coordinates_max_kernel(src, coords, lo, k) ==
  LET r == max_kernel_window(src, coords, lo, k)
  IN  RInt(MaxOfSet({Val(src.vol, src.ch, src.org[1] + q[1], src.org[2] + q[2], src.org[3] + q[3]) :
                       q \in window_voxels(r)}))

\* the indices of src a kernel reads for one output voxel: src[u, v, w] of the
\* nearest kernel, the 8 corners src[u0|u1, v0|v1, w0|w1] of the linear kernel,
\* the slice src[u0:u1, v0:v1, w0:w1] of the max kernel
nearest_reads(coords, lo) ==
  {<<Round(RSub(coords[1], lo[1])), Round(RSub(coords[2], lo[2])), Round(RSub(coords[3], lo[3]))>>}
linear_reads(coords, lo) ==
  LET u0 == Trunc(RSub(coords[1], lo[1]))
      v0 == Trunc(RSub(coords[2], lo[2]))
      w0 == Trunc(RSub(coords[3], lo[3]))
  IN  {u0, u0 + 1} \X {v0, v0 + 1} \X {w0, w0 + 1}
kernel_reads(kernel, src, coords, lo, ksize) ==
  CASE kernel = "nearest" -> nearest_reads(coords, lo)
    [] kernel = "linear" -> linear_reads(coords, lo)
    [] kernel = "max" -> window_voxels(max_kernel_window(src, coords, lo, ksize))

----------------------------------------------------------------------------
(* warp_slice *)

\* class WarpingOOBError(ValueError), among Python's built-in exception
\* classes: the base class of each, and the variant deriving it from Exception
base_class_flat(cls) ==
  CASE cls = "WarpingOOBError" -> "Exception"
    [] cls = "ValueError" -> "Exception"
    [] cls = "NotImplementedError" -> "RuntimeError"
    [] cls = "RuntimeError" -> "Exception"
    [] cls = "AssertionError" -> "Exception"
    [] cls = "IndexError" -> "LookupError"
    [] cls = "LookupError" -> "Exception"
    [] OTHER -> "BaseException"
base_class(cls) ==
  CASE cls = "WarpingOOBError" -> "ValueError"
    [] cls = "ValueError" -> "Exception"
    [] cls = "NotImplementedError" -> "RuntimeError"
    [] cls = "RuntimeError" -> "Exception"
    [] cls = "AssertionError" -> "Exception"
    [] cls = "IndexError" -> "LookupError"
    [] cls = "LookupError" -> "Exception"
    [] OTHER -> "BaseException"

\* issubclass(cls, handler): an "except handler:" clause intercepts an
\* exception of class cls
RECURSIVE issubclass(_, _)
issubclass(cls, handler) ==
  IF cls = handler THEN TRUE
  ELSE IF cls = "BaseException" THEN FALSE
  ELSE issubclass(base_class(cls), handler)

\* What a call gives back: kind "ok" with the arrays, or the exception raised.
\* kern / tkern record the kernel that filled each primary / target channel.
Ok(inp, target, kern, tkern) ==
  [kind |-> "ok", msg |-> "", inp |-> inp, target |-> target, kern |-> kern, tkern |-> tkern]
Raise(kind, msg) ==
  [kind |-> kind, msg |-> msg, inp |-> NoArr, target |-> NoArr, kern |-> NoArr, tkern |-> NoArr]

\* lo = np.min(np.floor(src_corners), 0), hi = np.max(np.ceil(src_corners + 1), 0)
\* (and hi without the 1 added for the linear kernel)
bbox_lo(pts) == stored([a \in Axes |-> MinOfSet({Floor(p[a]) : p \in pts})])
bbox_hi_tight(pts) == stored([a \in Axes |-> MaxOfSet({Ceil(p[a]) : p \in pts})])
bbox_hi(pts) == stored([a \in Axes |-> MaxOfSet({Ceil(RAdd(p[a], One)) : p \in pts})])

\* np.any(lo < 0) or np.any(hi >= sh), with hi > sh as the off-by-one variant
out_of_bounds_lax(lo, hi, sh) == (\E a \in Axes : lo[a] < 0) \/ (\E a \in Axes : hi[a] > sh[a])
out_of_bounds(lo, hi, sh) == (\E a \in Axes : lo[a] < 0) \/ (\E a \in Axes : hi[a] >= sh[a])

\* np.any(np.mod(off, 2)) for a difference off of two shapes, and the variant
\* that lets every difference through
not_centered_never(off) == FALSE
not_centered(off) == \E a \in Axes : off[a] % 2 # 0

\* the kernel of primary channel k (lines 489-493)
primary_kernel(k, n_f, last_ch_max_interp, ksize) ==
  IF RLt(Rat(1, 2), ksize) /\ last_ch_max_interp /\ k = n_f - 1 THEN "max" ELSE "linear"

\* the kernel of target channel k (lines 564-573)
target_kernel_all_linear(k, target_discrete_ix) == "linear"
target_kernel(k, target_discrete_ix) ==
  IF target_discrete_ix.none THEN "nearest"
  ELSE IF k \in target_discrete_ix.ix THEN "nearest" ELSE "linear"

resample(kernel, src, coords, lo, ksize) ==
  CASE kernel = "nearest" -> map_coordinates_nearest(src, coords, lo)
    [] kernel = "linear" -> map_coordinates_linear(src, coords, lo)
    [] kernel = "max" -> map_coordinates_max_kernel(src, coords, lo, ksize)

\* M[:3,:3] applied to the 3-vector vec (a function on 1..3 of rationals)
lin_apply(M, vec) ==
  stored([i \in Axes |-> RAdd(RAdd(RMul(Entry(M, i - 1, 0), vec[1]), RMul(Entry(M, i - 1, 1), vec[2])),
                              RMul(Entry(M, i - 1, 2), vec[3]))])

\* target[ix] = np.tensordot(M_lin, target[ix], axes=[[1],[0]]) for one ix.
\* ix.seq "list": target[[a,b,c]] selects the three channels a, b, c.
\* ix.seq "tuple": target[(a,b,c)] is target[a,b,c], the row of channel a at
\* z = b, y = c, of length target_ps[3].
reproject_one(M, target, n_f_t, target_ps, ix) ==
  IF Len(ix.v) # 3 THEN [err |-> "AssertionError", target |-> target]
  ELSE IF ix.seq = "list"
  THEN IF \E i \in Axes : ix.v[i] >= n_f_t THEN [err |-> "IndexError", target |-> target]
       ELSE [err |-> "",
             target |-> stored([k \in 0 .. n_f_t - 1 |->
                           IF \E i \in Axes : ix.v[i] = k
                           THEN stored([t \in Voxels(target_ps) |->
                                   lin_apply(M, [j \in Axes |-> target[ix.v[j]][t]])
                                     [CHOOSE i \in Axes : ix.v[i] = k]])
                           ELSE target[k]])]
  ELSE IF ix.v[1] >= n_f_t \/ ix.v[2] >= target_ps[1] \/ ix.v[3] >= target_ps[2]
  THEN [err |-> "IndexError", target |-> target]
  ELSE IF target_ps[3] # 3 THEN [err |-> "ValueError", target |-> target]
  ELSE [err |-> "",
        target |-> stored([k \in 0 .. n_f_t - 1 |->
                      IF k # ix.v[1] THEN target[k]
                      ELSE stored([t \in Voxels(target_ps) |->
                              IF t[1] = ix.v[2] /\ t[2] = ix.v[3]
                              THEN lin_apply(M, [j \in Axes |-> target[k][<<t[1], t[2], j - 1>>]])[t[3] + 1]
                              ELSE target[k][t]])])]

RECURSIVE reproject(_, _, _, _, _)
reproject(M, target, n_f_t, target_ps, vec_ix) ==
  IF vec_ix = << >> THEN [err |-> "", target |-> target]
  ELSE LET r == reproject_one(M, target, n_f_t, target_ps, Head(vec_ix))
       IN  IF r.err # "" THEN r
           ELSE reproject(M, r.target, n_f_t, target_ps, Tail(vec_ix))

\* lo_targ = (lo_targ + off).astype(floatX): the origin the kernels subtract
\* from the source coordinates, and the variant that leaves the offset out
target_origin_unshifted(lo_targ, off) == stored([a \in Axes |-> RInt(lo_targ[a])])
target_origin(lo_targ, off) == stored([a \in Axes |-> RInt(lo_targ[a] + off[a])])

\* lines 494-583: the target part, entered with the primary output inp
warp_slice_target(sh, ps, M, src_coords, inp, kern, target_src, target_ps, target_vec_ix, target_discrete_ix) ==
  LET n_f_t == target_src.shape[1]
      tsh == Tail(target_src.shape)
      off2 == stored([a \in Axes |-> sh[a] - tsh[a]])
      off == stored([a \in Axes |-> off2[a] \div 2])
      off_ps2 == stored([a \in Axes |-> ps[a] - target_ps[a]])
      off_ps == stored([a \in Axes |-> off_ps2[a] \div 2])
      src_coords_target ==
        stored([t \in Voxels(target_ps) |->
                  src_coords[<<t[1] + off_ps[1], t[2] + off_ps[2], t[3] + off_ps[3]>>]])
      shifted == {[a \in Axes |-> RSub(src_coords_target[t][a], RInt(off[a]))] : t \in Voxels(target_ps)}
      lo_targ == bbox_lo(shifted)
      hi_targ == bbox_hi(shifted)
      target_cut(k) == Cut(target_src, k, lo_targ, [a \in Axes |-> hi_targ[a] + 1 - lo_targ[a]])
      lo_f == target_origin(lo_targ, off)
      tkern == stored([k \in 0 .. n_f_t - 1 |-> target_kernel(k, target_discrete_ix)])
      target == stored([k \in 0 .. n_f_t - 1 |->
                   stored([t \in Voxels(target_ps) |->
                      resample(tkern[k], target_cut(k), src_coords_target[t], lo_f, Zero)])])
  IN  IF not_centered(off2)
      THEN Raise("ValueError", "targets must be centered w.r.t. images")
      ELSE IF not_centered(off_ps2)
      THEN Raise("ValueError", "targets must be centered w.r.t. images")
      ELSE IF out_of_bounds(lo_targ, hi_targ, tsh)
      THEN Raise("WarpingOOBError", "Out of bounds for target_src")
      ELSE IF target_vec_ix.none THEN Ok(inp, target, kern, tkern)
      ELSE IF any_persp(M) THEN Raise("AssertionError", "no projective transform")
      ELSE LET r == reproject(M, target, n_f_t, target_ps, target_vec_ix.ix)
           IN  IF r.err # "" THEN Raise(r.err, "target[ix]") ELSE Ok(inp, r.target, kern, tkern)

warp_slice(inp_src, ps, M, target_src, target_ps, target_vec_ix, target_discrete_ix, last_ch_max_interp, ksize) ==
  IF Len(inp_src.shape) = 3
  THEN Raise("NotImplementedError", "raw 3D form without a channel axis")
  ELSE IF Len(inp_src.shape) # 4 THEN Raise("ValueError", "inp_src wrong dim/shape")
  ELSE
    LET n_f == inp_src.shape[1]
        sh == Tail(inp_src.shape)
        M_inv == inv(M)
        src_corners == {src_point(M_inv, any_persp(M), c) : c \in make_dest_corners(ps)}
        lo == bbox_lo(src_corners)
        hi == bbox_hi(src_corners)
        src_coords == stored([v \in make_dest_coords(ps) |-> src_point(M_inv, any_persp(M), v)])
        img_cut(k) == Cut(inp_src, k, lo, [a \in Axes |-> hi[a] + 1 - lo[a]])
        lo_f == stored([a \in Axes |-> RInt(lo[a])])
        kern == stored([k \in 0 .. n_f - 1 |-> primary_kernel(k, n_f, last_ch_max_interp, ksize)])
        inp == stored([k \in 0 .. n_f - 1 |->
                  stored([v \in Voxels(ps) |-> resample(kern[k], img_cut(k), src_coords[v], lo_f, ksize)])])
    IN  IF out_of_bounds(lo, hi, sh) THEN Raise("WarpingOOBError", "Out of bounds")
        ELSE IF \E k \in 0 .. n_f - 1 : \E v \in Voxels(ps) :
                  kern[k] = "max" /\ max_kernel_raises(img_cut(k), src_coords[v], lo_f, ksize)
        THEN Raise("ValueError", "zero-size array to reduction operation maximum")
        ELSE IF target_src = NoVol THEN Ok(inp, NoArr, kern, NoArr)
        ELSE warp_slice_target(sh, ps, M, src_coords, inp, kern, target_src, target_ps,
                               target_vec_ix, target_discrete_ix)

----------------------------------------------------------------------------
(* Random generators and the samplers *)

\* A generator state is a position in a fixed stream of 4-bit words; every
\* draw reads the word at the position and advances it by one.  The same
\* stream serves the RandomState objects handed to the samplers and numpy's
\* global generator, which are distinct states.
Stream == <<9, 2, 15, 4, 0, 13, 6, 11, 3, 8, 1, 14, 7, 10, 5, 12, 2, 9, 12, 7>>
word(s) == Stream[(s % Len(Stream)) + 1]

\* rng.binomial(1, 0.5): one fair coin
coin(s) == IF word(s) >= 8 THEN 1 ELSE 0
\* rng.randint(low, high) for low < high: float bounds are truncated to integers
randint(s, low, high) == Trunc(low) + (word(s) % (Trunc(high) - Trunc(low)))
\* rng.rand() * 2 * np.pi * amount, on the grid of quarter turns (amount 0 or 1)
turn(s, amount) ==
  IF amount = Zero THEN Angle(One, Zero)
  ELSE CASE word(s) % 4 = 0 -> Angle(One, Zero)
         [] word(s) % 4 = 1 -> Angle(Zero, One)
         [] word(s) % 4 = 2 -> Angle(RInt(-1), Zero)
         [] word(s) % 4 = 3 -> Angle(Zero, RInt(-1))
\* np.arcsin(rng.rand()) * amount, for rand() in {0, 3/5} (amount 0 or 1)
tilt(s, amount) ==
  IF amount = Zero \/ word(s) % 2 = 0 THEN Angle(One, Zero) ELSE Angle(Rat(4, 5), Rat(3, 5))
\* np.random.uniform(-a, a): one of -a, -a/2, 0, a/2
uniform(s, a) == RAdd(RNeg(a), RMul(RMul(RInt(2), a), Rat(word(s) % 4, 4)))

\* exact square root of a rational that is the square of a rational
ISqrt(n) == CHOOSE k \in 0 .. n : k * k = n
RSqrt(q) == Rat(ISqrt(q.n), ISqrt(q.d))

\* get_euler_angles: [err, phi, theta]; the assertion is on the norm of direc
get_euler_angles(direc) ==
  LET n2 == RAdd(RAdd(RMul(direc[1], direc[1]), RMul(direc[2], direc[2])), RMul(direc[3], direc[3]))
      r2 == RAdd(RMul(direc[2], direc[2]), RMul(direc[3], direc[3]))
      r == RSqrt(r2)
  IN  IF ~(RLt(Rat(998001, 1000000), n2) /\ RLt(n2, Rat(1002001, 1000000)))
      THEN [err |-> "AssertionError", phi |-> Angle(One, Zero), theta |-> Angle(One, Zero)]
      ELSE [err |-> "",
            \* np.arctan2(direc[2], direc[1])
            phi |-> IF r = Zero THEN Angle(One, Zero) ELSE Angle(RDiv(direc[2], r), RDiv(direc[3], r)),
            \* np.arccos(direc[0]), in [0, pi]
            theta |-> Angle(direc[1], RSqrt(RSub(One, RMul(direc[1], direc[1]))))]

\* gamma: [kind |-> "none"], [kind |-> "rand"] or [kind |-> "fixed", a |-> angle]
get_rotmat_from_direc(direc, gamma, s) ==
  LET g == CASE gamma.kind = "none" -> Angle(One, Zero)
             [] gamma.kind = "rand" -> turn(s, One)
             [] OTHER -> gamma.a
      e == get_euler_angles(direc)
      R1 == rotate_z(NegAngle(e.phi))
      R2 == rotate_y(NegAngle(e.theta))
      R3 == rotate_z(g)
  IN  [err |-> e.err,
       val |-> IF e.err # "" THEN eye4 ELSE chain_matrices(<<R3, R2, R1>>),
       rng |-> IF gamma.kind = "rand" THEN s + 1 ELSE s]

get_random_rotmat(lock_z, amount, s) ==
  LET gamma == turn(s, amount)
      phi == turn(s + 1, amount)
      theta == tilt(s + 2, amount)
      R1 == rotate_z(NegAngle(phi))
      R2 == rotate_y(NegAngle(theta))
      R3 == rotate_z(gamma)
  IN  IF lock_z THEN [val |-> rotate_z(gamma), rng |-> s + 1]
      ELSE [val |-> chain_matrices(<<R3, R2, R1>>), rng |-> s + 3]

\* np.fill_diagonal(np.eye(4), flips)
diag4(f) == Array4([i \in 1 .. 4 |-> [j \in 1 .. 4 |-> IF i = j THEN RInt(f[i - 1]) ELSE Zero]])

get_random_flipmat(no_x_flip, s) ==
  LET drawn == [i \in Ix4 |-> coin(s + i) * 2 - 1]
      flips == [i \in Ix4 |-> IF i = 3 THEN 1 ELSE IF no_x_flip /\ i = 2 THEN 1 ELSE drawn[i]]
  IN  [val |-> diag4(flips), rng |-> s + 4]

swaps(lock_z) ==
  IF lock_z THEN << <<0, 1, 2, 3>>, <<0, 2, 1, 3>> >>
  ELSE << <<0, 1, 2, 3>>, <<0, 2, 1, 3>>, <<1, 0, 2, 3>>, <<1, 2, 0, 3>>, <<2, 0, 1, 3>>, <<2, 1, 0, 3>> >>

get_random_swapmat(lock_z, s) ==
  LET i == randint(s, Zero, RInt(Len(swaps(lock_z))))
      rows == swaps(lock_z)[i + 1]
  IN  [val |-> MatNorm([r \in Ix4 |-> eye4.m[rows[r + 1]]], 1), rng |-> s + 1]

\* perturb after lines 288-297, as a 4x4 of rationals; gs is the state of the
\* global generator, the rng argument is not read
\* (two variants first: one without "perturb[3] = 0", one that leaves
\* perturb[3,3] as drawn)
warp_perturb_keeps_last_row(lock_z, perspective, amount, gs) ==
  LET a == RMul(amount, Rat(1, 10))
      p0 == stored4([i \in Ix4 |-> [j \in Ix4 |-> uniform(gs + 4 * i + j, a)]])
      p1 == stored4([i \in Ix4 |-> [j \in Ix4 |-> IF i = 3 /\ j = 3 THEN Zero ELSE p0[i][j]]])
      p2 == stored4([i \in Ix4 |-> [j \in Ix4 |-> IF lock_z /\ (i = 0 \/ j = 0) THEN Zero ELSE p1[i][j]]])
      p3 == stored4([i \in Ix4 |-> [j \in Ix4 |-> p2[i][j]]])
  IN  stored4([i \in Ix4 |-> [j \in Ix4 |->
         IF i = 3 /\ j < 3
         THEN Clip(RMul(p3[i][j], Rat(1, 20)), Rat(-3, 1000), Rat(3, 1000))
         ELSE p3[i][j]]])

warp_perturb_keeps_corner(lock_z, perspective, amount, gs) ==
  LET a == RMul(amount, Rat(1, 10))
      p0 == stored4([i \in Ix4 |-> [j \in Ix4 |-> uniform(gs + 4 * i + j, a)]])
      p1 == stored4([i \in Ix4 |-> [j \in Ix4 |-> p0[i][j]]])
      p2 == stored4([i \in Ix4 |-> [j \in Ix4 |-> IF lock_z /\ (i = 0 \/ j = 0) THEN Zero ELSE p1[i][j]]])
      p3 == stored4([i \in Ix4 |-> [j \in Ix4 |-> IF ~perspective /\ i = 3 /\ j < 3 THEN Zero ELSE p2[i][j]]])
  IN  stored4([i \in Ix4 |-> [j \in Ix4 |->
         IF i = 3 /\ j < 3
         THEN Clip(RMul(p3[i][j], Rat(1, 20)), Rat(-3, 1000), Rat(3, 1000))
         ELSE p3[i][j]]])

warp_perturb(lock_z, perspective, amount, gs) ==
  LET a == RMul(amount, Rat(1, 10))
      p0 == stored4([i \in Ix4 |-> [j \in Ix4 |-> uniform(gs + 4 * i + j, a)]])
      p1 == stored4([i \in Ix4 |-> [j \in Ix4 |-> IF i = 3 /\ j = 3 THEN Zero ELSE p0[i][j]]])
      p2 == stored4([i \in Ix4 |-> [j \in Ix4 |-> IF lock_z /\ (i = 0 \/ j = 0) THEN Zero ELSE p1[i][j]]])
      p3 == stored4([i \in Ix4 |-> [j \in Ix4 |-> IF ~perspective /\ i = 3 THEN Zero ELSE p2[i][j]]])
  IN  stored4([i \in Ix4 |-> [j \in Ix4 |->
         IF i = 3 /\ j < 3
         THEN Clip(RMul(p3[i][j], Rat(1, 20)), Rat(-3, 1000), Rat(3, 1000))
         ELSE p3[i][j]]])

get_random_warpmat(lock_z, perspective, amount, s, gs) ==
  LET perturb == warp_perturb(lock_z, perspective, amount, gs)
  IN  [val |-> Array4([i \in 1 .. 4 |-> [j \in 1 .. 4 |->
                 RAdd(Entry(eye4, i - 1, j - 1), perturb[i - 1][j - 1])]]),
       rng |-> s, np_random |-> gs + 16]

----------------------------------------------------------------------------
(* The two assemblers *)

\* The exact inverse of M is computed when M's common denominator is at most
\* MaxDen; beyond that (the random warps, with entries in thousandths) the
\* numbers leave the model's integers and the geometry of the call is left
\* open: see warp_slice_open.
MaxDen == 8
fits(M) == M.d <= MaxDen

\* warp_slice for a matrix that does not fit: the same sequence of checks,
\* with the outcome of each bounding-box check given by o (either may pass
\* or fail) and the resampled values not computed.
warp_slice_open(inp_src, ps, M, target_src, target_ps, target_vec_ix, target_discrete_ix, o) ==
  IF Len(inp_src.shape) = 3
  THEN Raise("NotImplementedError", "raw 3D form without a channel axis")
  ELSE IF Len(inp_src.shape) # 4 THEN Raise("ValueError", "inp_src wrong dim/shape")
  ELSE IF o.oob THEN Raise("WarpingOOBError", "Out of bounds")
  ELSE IF target_src = NoVol THEN Ok(NoArr, NoArr, NoArr, NoArr)
  ELSE IF not_centered([a \in Axes |-> inp_src.shape[a + 1] - target_src.shape[a + 1]])
  THEN Raise("ValueError", "targets must be centered w.r.t. images")
  ELSE IF not_centered([a \in Axes |-> ps[a] - target_ps[a]])
  THEN Raise("ValueError", "targets must be centered w.r.t. images")
  ELSE IF o.oob_t THEN Raise("WarpingOOBError", "Out of bounds for target_src")
  ELSE IF target_vec_ix.none THEN Ok(NoArr, NoArr, NoArr, NoArr)
  ELSE IF any_persp(M) THEN Raise("AssertionError", "no projective transform")
  ELSE LET blank == [k \in 0 .. target_src.shape[1] - 1 |-> [t \in Voxels(target_ps) |-> Zero]]
           r == reproject(eye4, blank, target_src.shape[1], target_ps, target_vec_ix.ix)
       IN  IF r.err # "" THEN Raise(r.err, "target[ix]") ELSE Ok(NoArr, NoArr, NoArr, NoArr)

Open == [oob : BOOLEAN, oob_t : BOOLEAN]

\* what an assembler hands back: the result, the matrix M it built, and the
\* two generator states after the call
Out(r, M, s, gs) == [ret |-> r, mat |-> M, rng |-> s, np_random |-> gs]

\* the matrix get_tracing_slice builds, with the generator state after it
tracing_matrix(ps, pos, z_shift, aniso_factor, sample_aniso, gamma, scale_factor, direction_iso, s, gs) ==
  LET dest_center == [a \in Axes |-> IF a = 1 THEN RSub(Rat(ps[a], 2), z_shift) ELSE Rat(ps[a], 2)]
      R == get_rotmat_from_direc(direction_iso, gamma, s)
      T_src == translate(RNeg(pos[1]), RNeg(pos[2]), RNeg(pos[3]))
      S_src == scale(aniso_factor, One, One)
      S_zoom == scale(scale_factor, scale_factor, scale_factor)
      S_dest == IF sample_aniso THEN scale_inv(aniso_factor, One, One) ELSE identity
      T_dest == translate(dest_center[1], dest_center[2], dest_center[3])
  IN  IF R.err # ""
      THEN [err |-> R.err, msg |-> "get_euler_angles", M |-> eye4, rng |-> R.rng, np_random |-> gs]
      ELSE [err |-> "", msg |-> "", rng |-> R.rng, np_random |-> gs,
            M |-> chain_matrices(<<T_dest, S_zoom, S_dest, R.val, S_src, T_src>>)]

\* ksize = min(0.5, 0.5/scale_factor)
tracing_ksize(scale_factor) == RMin(Half, RDiv(Half, scale_factor))

\* the rest of get_tracing_slice, given the matrix part B
tracing_warp(img, ps, scale_factor, target, target_ps, target_vec_ix, target_discrete_ix, last_ch_max_interp, B, o) ==
  LET M == B.M
      ksize == tracing_ksize(scale_factor)
  IN  IF B.err # "" THEN Out(Raise(B.err, B.msg), eye4, B.rng, B.np_random)
      ELSE IF fits(M)
      THEN Out(warp_slice(img, ps, M, target, target_ps, target_vec_ix, target_discrete_ix,
                          last_ch_max_interp, ksize), M, B.rng, B.np_random)
      ELSE Out(warp_slice_open(img, ps, M, target, target_ps, target_vec_ix,
                               target_discrete_ix, o), M, B.rng, B.np_random)

get_tracing_slice(img, ps, pos, z_shift, aniso_factor, sample_aniso, gamma, scale_factor, direction_iso, target, target_ps, target_vec_ix, target_discrete_ix, s, gs, last_ch_max_interp, o) ==
  tracing_warp(img, ps, scale_factor, target, target_ps, target_vec_ix, target_discrete_ix,
               last_ch_max_interp,
               tracing_matrix(ps, pos, z_shift, aniso_factor, sample_aniso, gamma, scale_factor,
                              direction_iso, s, gs), o)

\* inp[:,0] and target[:,0] of the 2-D case
strip(r) ==
  LET cut(A) == IF A = NoArr THEN NoArr
                ELSE stored([k \in DOMAIN A |->
                               stored([t \in {<<v[2], v[3]>> : v \in DOMAIN A[k]} |-> A[k][<<0, t[1], t[2]>>]])])
  IN  IF r.kind # "ok" THEN r ELSE [r EXCEPT !.inp = cut(r.inp), !.target = cut(r.target)]

\* the patch shapes get_warped_slice works with: a leading 1 in the 2-D case
warped_ps(ps_arg) == IF Len(ps_arg) = 2 THEN <<1>> \o ps_arg ELSE ps_arg
warped_target_ps(ps_arg, target_src, target_ps_arg) ==
  IF Len(ps_arg) = 2 /\ target_src # NoVol THEN <<1>> \o target_ps_arg ELSE target_ps_arg

\* the range the source centre is drawn from
warped_lo_pos(inp_src, ps, target_src, target_ps) ==
  LET sh == Tail(inp_src.shape)
      dest_center == [a \in Axes |-> Rat(ps[a], 2)]
      t_center == [a \in Axes |-> Rat(target_ps[a], 2)]
      off == [a \in Axes |-> (sh[a] - target_src.shape[a + 1]) \div 2]
  IN  IF target_ps # NoShape
      THEN [a \in Axes |-> RMax(dest_center[a], RAdd(t_center[a], RInt(off[a])))]
      ELSE dest_center

warped_hi_pos(inp_src, ps, target_src, target_ps) ==
  LET sh == Tail(inp_src.shape)
      dest_center == [a \in Axes |-> Rat(ps[a], 2)]
      t_center == [a \in Axes |-> Rat(target_ps[a], 2)]
      off == [a \in Axes |-> (sh[a] - target_src.shape[a + 1]) \div 2]
  IN  IF target_ps # NoShape
      THEN [a \in Axes |-> RMin(RSub(RInt(sh[a]), dest_center[a]),
                                RAdd(RSub(RInt(target_src.shape[a + 1]), t_center[a]), RInt(off[a])))]
      ELSE [a \in Axes |-> RSub(RInt(sh[a]), dest_center[a])]

\* the matrix get_warped_slice builds, with the two generator states after it
warped_matrix(inp_src, ps_arg, aniso_factor, sample_aniso, warp_amount, lock_z, no_x_flip, perspective, target_src, target_ps_arg, s, gs) ==
  LET ps == warped_ps(ps_arg)
      target_ps == warped_target_ps(ps_arg, target_src, target_ps_arg)
      dest_center == [a \in Axes |-> Rat(ps[a], 2)]
      src_remainder == [a \in Axes |-> Rat(ps[a] % 2, 2)]
      lo_pos == warped_lo_pos(inp_src, ps, target_src, target_ps)
      hi_pos == warped_hi_pos(inp_src, ps, target_src, target_ps)
      z == RAdd(RInt(randint(s, lo_pos[1], hi_pos[1])), src_remainder[1])
      y == RAdd(RInt(randint(s + 1, lo_pos[2], hi_pos[2])), src_remainder[2])
      x == RAdd(RInt(randint(s + 2, lo_pos[3], hi_pos[3])), src_remainder[3])
      F == get_random_flipmat(no_x_flip, s + 3)
      S == IF no_x_flip THEN [val |-> eye4, rng |-> F.rng] ELSE get_random_swapmat(lock_z, F.rng)
      still == warp_amount = Zero
      R == IF still THEN [val |-> eye4, rng |-> S.rng] ELSE get_random_rotmat(lock_z, warp_amount, S.rng)
      W == IF still THEN [val |-> eye4, rng |-> R.rng, np_random |-> gs]
           ELSE get_random_warpmat(lock_z, perspective, warp_amount, R.rng, gs)
      T_src == translate(RNeg(z), RNeg(y), RNeg(x))
      S_src == scale(aniso_factor, One, One)
      S_dest == IF sample_aniso THEN scale(RDiv(One, aniso_factor), One, One) ELSE identity
      T_dest == translate(dest_center[1], dest_center[2], dest_center[3])
  IN  IF ~(\A a \in Axes : RLt(lo_pos[a], hi_pos[a]))
      THEN [err |-> "AssertionError", msg |-> "lo_pos < hi_pos", M |-> eye4, rng |-> s, np_random |-> gs]
      ELSE IF \E a \in Axes : Trunc(lo_pos[a]) >= Trunc(hi_pos[a])
      THEN [err |-> "ValueError", msg |-> "low >= high", M |-> eye4, rng |-> s, np_random |-> gs]
      ELSE [err |-> "", msg |-> "", rng |-> W.rng, np_random |-> W.np_random,
            M |-> chain_matrices(<<T_dest, S_dest, R.val, W.val, F.val, S.val, S_src, T_src>>)]

\* the rest of get_warped_slice, given the matrix part B
warped_warp(inp_src, ps_arg, target_src, target_ps_arg, target_vec_ix, target_discrete_ix, B, o) ==
  LET ps == warped_ps(ps_arg)
      target_ps == warped_target_ps(ps_arg, target_src, target_ps_arg)
      M == B.M
      strip_2d(r) == IF Len(ps_arg) = 2 THEN strip(r) ELSE r
  IN  IF B.err # "" THEN Out(Raise(B.err, B.msg), eye4, B.rng, B.np_random)
      ELSE IF fits(M)
      THEN Out(strip_2d(warp_slice(inp_src, ps, M, target_src, target_ps, target_vec_ix,
                                   target_discrete_ix, FALSE, Half)), M, B.rng, B.np_random)
      ELSE Out(strip_2d(warp_slice_open(inp_src, ps, M, target_src, target_ps, target_vec_ix,
                                        target_discrete_ix, o)), M, B.rng, B.np_random)

get_warped_slice(inp_src, ps_arg, aniso_factor, sample_aniso, warp_amount, lock_z, no_x_flip, perspective, target_src, target_ps_arg, target_vec_ix, target_discrete_ix, s, gs, o) ==
  warped_warp(inp_src, ps_arg, target_src, target_ps_arg, target_vec_ix, target_discrete_ix,
              warped_matrix(inp_src, ps_arg, aniso_factor, sample_aniso, warp_amount, lock_z,
                            no_x_flip, perspective, target_src, target_ps_arg, s, gs), o)

----------------------------------------------------------------------------
(* State: one call of a function of the module and what it gave back *)

VARIABLES
  pc,         \* "ready" before the call, "done" after it, "again" after the re-run
  call,       \* the function called and its arguments
  ret,        \* what the call gave back: the arrays or the exception
  mat,        \* the matrix the call built (M of the assemblers, the value of a builder)
  rng,        \* state of the np.random.RandomState handed to the call
  np_random,  \* state of numpy's global generator (np.random.*)
  first       \* ret and mat of the first run, kept by the re-run

vars == <<pc, call, ret, mat, rng, np_random, first>>

NoRet == Raise("none", "")
Done(r) == Ok(NoArr, NoArr, NoArr, NoArr)

----------------------------------------------------------------------------
(* The calls made *)

\* translations tried along an axis: -MaxShift .. MaxShift voxels
MaxShift == 1
\* longest list handed to chain_matrices
MaxChain == 3
\* generator states a call starts from: 0 .. MaxSeed
MaxSeed == 1

Shifts == {translate(RInt(tz), Zero, RInt(tx)) : tz \in -MaxShift .. MaxShift, tx \in -MaxShift .. MaxShift}

\* a forward matrix with a perspective row, the way get_random_warpmat builds one
persp(p) ==
  Array4(<< <<One, Zero, Zero, Zero>>,
            <<Zero, One, Zero, Zero>>,
            <<Zero, Zero, One, Zero>>,
            <<Zero, Zero, p, One>> >>)

quarter_turn == Angle(Zero, One)

Warps ==
  { translate(RNeg(Half), Zero, RNeg(Half)),
    translate(Zero, Rat(-1, 4), Rat(-3, 2)),
    chain_matrices(<<translate(One, Zero, RInt(2)), scale(RInt(-1), One, RInt(-1))>>),
    chain_matrices(<<translate(Zero, One, Zero), rotate_z(quarter_turn)>>),
    chain_matrices(<<translate(RNeg(Half), Zero, Zero), scale(RInt(2), One, One)>>),
    scale(Half, One, One),
    persp(Rat(1, 8)),
    chain_matrices(<<persp(Rat(-1, 8)), translate(Zero, Zero, RInt(-1))>>) }

Matrices == Shifts \cup Warps

Sources == { [shape |-> <<2, 3, 3, 4>>, pat |-> 1], [shape |-> <<2, 3, 3, 4>>, pat |-> 2],
             [shape |-> <<3, 3, 4>>, pat |-> 1], [shape |-> <<1, 2, 3, 3, 4>>, pat |-> 1] }

PatchShapes == { <<2, 2, 3>>, <<2, 2, 2>>, <<3, 3, 4>> }

Targets == { [shape |-> <<3, 3, 3, 4>>, pat |-> 2], [shape |-> <<3, 3, 3, 4>>, pat |-> 3],
             [shape |-> <<3, 3, 3, 2>>, pat |-> 1], [shape |-> <<1, 2, 3, 4>>, pat |-> 1] }

TargetPatchShapes == { <<2, 2, 3>>, <<2, 2, 2>>, <<2, 2, 1>>, <<1, 2, 2>>, <<3, 3, 4>> }

DiscreteIx == { NoIx, [none |-> FALSE, ix |-> {}], [none |-> FALSE, ix |-> {0, 2}] }

VecIx == { NoVec,
           [none |-> FALSE, ix |-> << [seq |-> "tuple", v |-> <<0, 1, 2>>] >>],
           [none |-> FALSE, ix |-> << [seq |-> "list", v |-> <<0, 1, 2>>] >>] }

MaxInterp == { [on |-> FALSE, ksize |-> Half], [on |-> TRUE, ksize |-> One] }

WarpCall(src, ps, M, tsrc, tps, vix, dix, mi) ==
  [fn |-> "warp_slice", inp_src |-> src, ps |-> ps, M |-> M, target_src |-> tsrc,
   target_ps |-> tps, target_vec_ix |-> vix, target_discrete_ix |-> dix,
   last_ch_max_interp |-> mi.on, ksize |-> mi.ksize, seed |-> 0, gseed |-> 0]

WarpCalls ==
  { WarpCall(src, ps, M, NoVol, NoShape, NoVec, NoIx, mi) :
      src \in Sources, ps \in PatchShapes, M \in Matrices, mi \in MaxInterp }
  \cup
  { WarpCall([shape |-> <<2, 3, 3, 4>>, pat |-> 1], x[1], x[2], x[3], x[4], x[5], x[6],
             [on |-> FALSE, ksize |-> Half]) :
      x \in { y \in PatchShapes \X Matrices \X Targets \X TargetPatchShapes \X VecIx \X DiscreteIx :
                /\ \A a \in Axes : y[4][a] <= y[1][a]
                /\ (y[5] = NoVec \/ y[6] = NoIx) } }

Directions == { <<One, Zero, Zero>>, <<Zero, One, Zero>>, <<Zero, Zero, RInt(-1)>>,
                <<Rat(3, 5), Rat(4, 5), Zero>>, <<One, One, Zero>> }

Gammas == { [kind |-> "none"], [kind |-> "rand"], [kind |-> "fixed", a |-> quarter_turn] }

Seeds == 0 .. MaxSeed

TracingCalls ==
  { [fn |-> "get_tracing_slice", img |-> [shape |-> <<2, 4, 4, 4>>, pat |-> 2], ps |-> <<2, 2, 2>>,
     pos |-> <<RInt(2), RInt(2), RInt(2)>>, z_shift |-> Zero, aniso_factor |-> x[1][1],
     sample_aniso |-> x[1][2], gamma |-> x[2], scale_factor |-> x[3], direction_iso |-> x[4],
     target |-> x[5].vol, target_ps |-> x[5].ps, target_vec_ix |-> NoVec,
     target_discrete_ix |-> NoIx, last_ch_max_interp |-> x[6], seed |-> x[7], gseed |-> 0] :
     x \in { y \in { <<One, TRUE>>, <<RInt(2), TRUE>>, <<RInt(2), FALSE>> } \X Gammas
                   \X { Half, One, RInt(2) } \X Directions
                   \X { [vol |-> NoVol, ps |-> NoShape],
                        [vol |-> [shape |-> <<1, 4, 4, 4>>, pat |-> 1], ps |-> <<2, 2, 2>>] }
                   \X BOOLEAN \X Seeds :
               y[2].kind = "rand" \/ y[7] = 0 } }

WarpedTargets ==
  { [vol |-> NoVol, ps |-> NoShape],
    [vol |-> [shape |-> <<1, 4, 4, 4>>, pat |-> 1], ps |-> <<2, 2, 2>>],
    [vol |-> [shape |-> <<1, 3, 4, 4>>, pat |-> 1], ps |-> <<2, 2, 2>>],
    [vol |-> [shape |-> <<1, 4, 4, 4>>, pat |-> 1], ps |-> <<1, 2, 2>>] }

WarpedCalls ==
  { [fn |-> "get_warped_slice", inp_src |-> [shape |-> <<1, 4, 4, 4>>, pat |-> 2], ps |-> x[1],
     aniso_factor |-> x[2][1], sample_aniso |-> x[2][2], warp_amount |-> x[3][1],
     perspective |-> x[3][2], lock_z |-> x[4], no_x_flip |-> x[5],
     target_src |-> x[6].vol, target_ps |-> IF Len(x[1]) = 2 /\ x[6].vol # NoVol THEN Tail(x[6].ps) ELSE x[6].ps,
     target_vec_ix |-> NoVec, target_discrete_ix |-> NoIx, seed |-> x[7], gseed |-> x[3][3]] :
     x \in { <<2, 2, 2>>, <<3, 3, 3>>, <<2, 2>> }
           \X { <<One, TRUE>>, <<RInt(2), TRUE>>, <<RInt(2), FALSE>> }
           \X { <<Zero, FALSE, 0>>, <<One, FALSE, 0>>, <<One, TRUE, 1>> }
           \X BOOLEAN \X BOOLEAN \X WarpedTargets \X Seeds }

\* the matrices chain_matrices is handed
Pool == { translate(One, Zero, RInt(-2)), rotate_z(quarter_turn), rotate_y(Angle(Rat(3, 5), Rat(4, 5))),
          scale(RInt(2), One, One), scale(RInt(-1), One, One), persp(Rat(1, 8)) }

RECURSIVE Lists(_, _)
Lists(S, n) == IF n = 0 THEN { << >> } ELSE { << >> } \cup { <<x>> \o l : x \in S, l \in Lists(S, n - 1) }

ChainCalls == { [fn |-> "chain_matrices", mat_list |-> l, seed |-> 0, gseed |-> 0] : l \in Lists(Pool, MaxChain) }

SomeAngles == { Angle(One, Zero), quarter_turn, Angle(RInt(-1), Zero), Angle(Rat(3, 5), Rat(4, 5)),
                Angle(Rat(-4, 5), Rat(3, 5)) }
SomeScalars == { One, RInt(2), Half, RInt(-1), Rat(-3, 2) }

BuildCalls ==
  { [fn |-> "build", op |-> "identity", a |-> << >>, seed |-> 0, gseed |-> 0] }
  \cup { [fn |-> "build", op |-> o, a |-> <<an>>, seed |-> 0, gseed |-> 0] :
           o \in { "rotate_z", "rotate_y", "rotate_x" }, an \in SomeAngles }
  \cup { [fn |-> "build", op |-> o, a |-> <<p, q, One>>, seed |-> 0, gseed |-> 0] :
           o \in { "translate", "scale", "scale_inv" }, p \in SomeScalars, q \in SomeScalars }

SamplerCalls ==
  { [fn |-> "get_random_flipmat", no_x_flip |-> b, seed |-> s, gseed |-> 0] : b \in BOOLEAN, s \in Seeds }
  \cup { [fn |-> "get_random_swapmat", lock_z |-> b, seed |-> s, gseed |-> 0] : b \in BOOLEAN, s \in Seeds }
  \cup { [fn |-> "get_random_rotmat", lock_z |-> b, amount |-> a, seed |-> s, gseed |-> 0] :
           b \in BOOLEAN, a \in { Zero, One }, s \in Seeds }
  \cup { [fn |-> "get_random_warpmat", lock_z |-> b, perspective |-> p, amount |-> a, seed |-> s, gseed |-> gs] :
           b \in BOOLEAN, p \in BOOLEAN, a \in { One, Half }, s \in Seeds, gs \in Seeds }
  \cup { [fn |-> "get_rotmat_from_direc", direc |-> d, gamma |-> ga, seed |-> s, gseed |-> 0] :
           d \in Directions, ga \in Gammas, s \in Seeds }

Calls == WarpCalls \cup TracingCalls \cup WarpedCalls \cup ChainCalls \cup BuildCalls \cup SamplerCalls

\* the functions that take rng
TakesRng == { "get_tracing_slice", "get_warped_slice", "get_random_flipmat", "get_random_swapmat",
              "get_random_rotmat", "get_random_warpmat", "get_rotmat_from_direc" }

build(op, a) ==
  CASE op = "identity" -> identity
    [] op = "translate" -> translate(a[1], a[2], a[3])
    [] op = "scale" -> scale(a[1], a[2], a[3])
    [] op = "scale_inv" -> scale_inv(a[1], a[2], a[3])
    [] op = "rotate_z" -> rotate_z(a[1])
    [] op = "rotate_y" -> rotate_y(a[1])
    [] op = "rotate_x" -> rotate_x(a[1])

\* the outcomes left open for a call with matrix M: both, of each
\* bounding-box check (of the second only with a target), when M does not fit
OpenFor(M, target) ==
  IF fits(M) THEN { [oob |-> FALSE, oob_t |-> FALSE] }
  ELSE IF target = NoVol THEN [oob : BOOLEAN, oob_t : {FALSE}]
  ELSE Open

\* everything call c of get_tracing_slice may give back with the generators
\* in states s and gs
tracing_outcomes(c, s, gs) ==
  { tracing_warp(c.img, c.ps, c.scale_factor, c.target, c.target_ps, c.target_vec_ix,
                 c.target_discrete_ix, c.last_ch_max_interp, B, o) :
      <<B, o>> \in { <<A, p>> \in { tracing_matrix(c.ps, c.pos, c.z_shift, c.aniso_factor,
                                                   c.sample_aniso, c.gamma, c.scale_factor,
                                                   c.direction_iso, s, gs) } \X Open :
                       p \in OpenFor(A.M, c.target) } }

\* the same for get_warped_slice
warped_outcomes(c, s, gs) ==
  { warped_warp(c.inp_src, c.ps, c.target_src, c.target_ps, c.target_vec_ix,
                c.target_discrete_ix, B, o) :
      <<B, o>> \in { <<A, p>> \in { warped_matrix(c.inp_src, c.ps, c.aniso_factor, c.sample_aniso,
                                                  c.warp_amount, c.lock_z, c.no_x_flip,
                                                  c.perspective, c.target_src, c.target_ps,
                                                  s, gs) } \X Open :
                       p \in OpenFor(A.M, c.target_src) } }

\* a sampler's value r handed back
sampled(r, gs) == { Out(Done(0), r.val, r.rng, gs) }

\* get_random_warpmat leaves numpy's global generator advanced
warpmat_outcome(c, s, gs) ==
  { Out(Done(0), r.val, r.rng, r.np_random) :
      r \in { get_random_warpmat(c.lock_z, c.perspective, c.amount, s, gs) } }

\* get_rotmat_from_direc hands the assertion of get_euler_angles on
rotmat_outcome(c, s, gs) ==
  { Out(IF r.err # "" THEN Raise(r.err, "get_euler_angles") ELSE Done(0), r.val, r.rng, gs) :
      r \in { get_rotmat_from_direc(c.direc, c.gamma, s) } }

\* everything call c of a function that takes rng may give back
rng_outcomes(c, s, gs) ==
  CASE c.fn = "get_tracing_slice" -> tracing_outcomes(c, s, gs)
    [] c.fn = "get_warped_slice" -> warped_outcomes(c, s, gs)
    [] c.fn = "get_random_flipmat" -> sampled(get_random_flipmat(c.no_x_flip, s), gs)
    [] c.fn = "get_random_swapmat" -> sampled(get_random_swapmat(c.lock_z, s), gs)
    [] c.fn = "get_random_rotmat" -> sampled(get_random_rotmat(c.lock_z, c.amount, s), gs)
    [] c.fn = "get_random_warpmat" -> warpmat_outcome(c, s, gs)
    [] c.fn = "get_rotmat_from_direc" -> rotmat_outcome(c, s, gs)

Init ==
  /\ pc = "ready"
  /\ call \in Calls
  /\ ret = NoRet
  /\ mat = eye4
  /\ rng = call.seed
  /\ np_random = call.gseed
  /\ first = [ret |-> NoRet, mat |-> eye4]

\* the call comes back with one of the outcomes in S
Return(S) ==
  /\ \E r \in S :
       /\ ret' = r.ret
       /\ mat' = r.mat
       /\ rng' = r.rng
       /\ np_random' = r.np_random
  /\ pc' = "done"
  /\ UNCHANGED <<call, first>>

WarpSlice ==
  /\ pc = "ready"
  /\ call.fn = "warp_slice"
  /\ Return({ Out(warp_slice(call.inp_src, call.ps, call.M, call.target_src, call.target_ps,
                             call.target_vec_ix, call.target_discrete_ix,
                             call.last_ch_max_interp, call.ksize), call.M, rng, np_random) })

GetTracingSlice ==
  /\ pc = "ready"
  /\ call.fn = "get_tracing_slice"
  /\ Return(tracing_outcomes(call, rng, np_random))

GetWarpedSlice ==
  /\ pc = "ready"
  /\ call.fn = "get_warped_slice"
  /\ Return(warped_outcomes(call, rng, np_random))

ChainMatrices ==
  /\ pc = "ready"
  /\ call.fn = "chain_matrices"
  /\ Return({ Out(Done(0), chain_matrices(call.mat_list), rng, np_random) })

Build ==
  /\ pc = "ready"
  /\ call.fn = "build"
  /\ Return({ Out(Done(0), build(call.op, call.a), rng, np_random) })

GetRandomFlipmat ==
  /\ pc = "ready"
  /\ call.fn = "get_random_flipmat"
  /\ Return(sampled(get_random_flipmat(call.no_x_flip, rng), np_random))

GetRandomSwapmat ==
  /\ pc = "ready"
  /\ call.fn = "get_random_swapmat"
  /\ Return(sampled(get_random_swapmat(call.lock_z, rng), np_random))

GetRandomRotmat ==
  /\ pc = "ready"
  /\ call.fn = "get_random_rotmat"
  /\ Return(sampled(get_random_rotmat(call.lock_z, call.amount, rng), np_random))

GetRandomWarpmat ==
  /\ pc = "ready"
  /\ call.fn = "get_random_warpmat"
  /\ Return(warpmat_outcome(call, rng, np_random))

GetRotmatFromDirec ==
  /\ pc = "ready"
  /\ call.fn = "get_rotmat_from_direc"
  /\ Return(rotmat_outcome(call, rng, np_random))

\* the caller puts rng back into the state it had and makes the same call
\* again; numpy's global generator is not the caller's to reset
Rerun ==
  /\ pc = "done"
  /\ call.fn \in TakesRng
  /\ \E r \in rng_outcomes(call, call.seed, np_random) :
       /\ ret' = r.ret
       /\ mat' = r.mat
       /\ rng' = r.rng
       /\ np_random' = r.np_random
  /\ first' = [ret |-> ret, mat |-> mat]
  /\ pc' = "again"
  /\ UNCHANGED call

Next ==
  \/ WarpSlice
  \/ GetTracingSlice
  \/ GetWarpedSlice
  \/ ChainMatrices
  \/ Build
  \/ GetRandomFlipmat
  \/ GetRandomSwapmat
  \/ GetRandomRotmat
  \/ GetRandomWarpmat
  \/ GetRotmatFromDirec
  \/ Rerun

Spec == Init /\ [][Next]_vars

----------------------------------------------------------------------------
(* Properties of warp_slice *)

WarpSliceDone == pc = "done" /\ call.fn = "warp_slice"
HasChannelAxis == Len(call.inp_src.shape) = 4

\* lo and hi of the box around the source coordinates of the 8 corners of an
\* output patch of shape ps
BoxOf(M_inv, divide, ps) ==
  LET pts == stored([c \in make_dest_corners(ps) |-> src_point(M_inv, divide, c)])
      lo == [a \in Axes |-> MinOfSet({Floor(pts[c][a]) : c \in DOMAIN pts})]
      hi == [a \in Axes |-> MaxOfSet({Ceil(pts[c][a]) : c \in DOMAIN pts}) + 1]
  IN  [lo |-> stored(lo), hi |-> stored(hi)]

Box == BoxOf(inv(call.M), any_persp(call.M), call.ps)

\* for some spatial axis, lo < 0 or hi >= source_shape
Leaves(b, shape) == \E a \in Axes : b.lo[a] < 0 \/ b.hi[a] >= shape[a + 1]
BoxLeavesSource == Leaves(Box, call.inp_src.shape)

\* the call's M is a translation by whole voxels
IntegerTranslation ==
  /\ call.M.d = 1
  /\ \A i \in Ix4 : \A j \in Ix3 : call.M.m[i][j] = IF i = j THEN 1 ELSE 0
  /\ call.M.m[3][3] = 1

\* the output box under a translation by t voxels covers t .. t + ps - 1 of
\* the destination, i.e. source voxels -t .. ps - 1 - t, and one more for the
\* linear kernel
ShiftedPastEdge ==
  \E a \in Axes : \/ call.M.m[a - 1][3] > 0
                  \/ call.ps[a] - call.M.m[a - 1][3] >= call.inp_src.shape[a + 1]

\* C1 as stated: warp_slice raises the Out-of-Bounds error exactly when, for
\* some spatial axis, lo < 0 or hi >= source_shape for the box of the 8
\* inverse-mapped output corners.
C1_Original ==
  (WarpSliceDone /\ HasChannelAxis) => (ret.kind = "WarpingOOBError" <=> BoxLeavesSource)

\* C1 as amended: on a source with a channel axis, warp_slice raises the
\* Out-of-Bounds error "Out of bounds" exactly when lo < 0 or hi >= source_shape
\* on some spatial axis, for an integer translation exactly when the box is
\* shifted past the source edge (not at lo = 0, hi = shape - 1); every other
\* Out-of-Bounds error is the one of the target's box, raised only with a target.
C1_Theorem ==
  (WarpSliceDone /\ HasChannelAxis) =>
    /\ (ret.kind = "WarpingOOBError" /\ ret.msg = "Out of bounds") <=> BoxLeavesSource
    /\ IntegerTranslation => (BoxLeavesSource <=> ShiftedPastEdge)
    /\ (ret.kind = "WarpingOOBError" /\ ret.msg # "Out of bounds") =>
         (call.target_src # NoVol /\ ret.msg = "Out of bounds for target_src")

\* an integer translation that puts the box exactly at the edge: lo = 0 on
\* one axis, hi = shape - 1 on another, and no error of the primary box
C1_Witness ==
  /\ WarpSliceDone /\ HasChannelAxis /\ IntegerTranslation
  /\ \E a \in Axes : Box.lo[a] = 0
  /\ \E a \in Axes : Box.hi[a] = call.inp_src.shape[a + 1] - 1
  /\ \E a \in Axes : call.M.m[a - 1][3] # 0
  /\ ret.kind = "ok"

\* the target's box raised although the primary box lies inside the source
C1_TargetBoxRaised ==
  /\ WarpSliceDone /\ HasChannelAxis /\ ~BoxLeavesSource
  /\ ret.kind = "WarpingOOBError"

IdentityCall == WarpSliceDone /\ HasChannelAxis /\ call.M = identity
SameShapeTarget ==
  /\ call.target_src # NoVol
  /\ Tail(call.target_src.shape) = Tail(call.inp_src.shape)
  /\ call.target_ps = call.ps
  /\ call.target_vec_ix.none

\* the primary output holds the source's voxels 0 .. ps - 1
PrimaryIsSource ==
  \A k \in 0 .. call.inp_src.shape[1] - 1 : \A v \in Voxels(call.ps) :
    ret.inp[k][v] = RInt(Val(call.inp_src, k, v[1], v[2], v[3]))

TargetIsSource ==
  \A k \in 0 .. call.target_src.shape[1] - 1 : \A v \in Voxels(call.target_ps) :
    ret.target[k][v] = RInt(Val(call.target_src, k, v[1], v[2], v[3]))

\* C2 as stated: with M = identity and ps equal to the source's spatial shape
\* warp_slice succeeds and the primary output equals the source content.
C2_Original ==
  (IdentityCall /\ call.ps = Tail(call.inp_src.shape) /\ call.target_src = NoVol
     /\ ~call.last_ch_max_interp) =>
    (ret.kind = "ok" /\ PrimaryIsSource)

\* C2 as amended: with M = identity, the max kernel off and ps at most the
\* source's spatial shape minus one on every axis, warp_slice succeeds and the
\* primary output equals the source content voxel for voxel (and, for a target
\* of the same shape and patch shape, the target output equals the target
\* content on the nearest and on the linear path); with ps equal to the
\* source's spatial shape it raises the Out-of-Bounds error.
C2_Theorem ==
  IdentityCall =>
    /\ call.ps = Tail(call.inp_src.shape) =>
         (ret.kind = "WarpingOOBError" /\ ret.msg = "Out of bounds")
    /\ ((\A a \in Axes : call.ps[a] <= call.inp_src.shape[a + 1] - 1)
          /\ ~call.last_ch_max_interp /\ (call.target_src = NoVol \/ SameShapeTarget)) =>
         /\ ret.kind = "ok"
         /\ PrimaryIsSource
         /\ SameShapeTarget => TargetIsSource

\* an identity call one voxel inside the source with a same-shape target whose
\* channels take both the nearest and the linear path
C2_Witness ==
  /\ IdentityCall /\ SameShapeTarget /\ ret.kind = "ok"
  /\ \E a \in Axes : call.ps[a] = call.inp_src.shape[a + 1] - 1
  /\ \E k \in DOMAIN ret.tkern : ret.tkern[k] = "nearest"
  /\ \E k \in DOMAIN ret.tkern : ret.tkern[k] = "linear"
  /\ \E k \in DOMAIN ret.inp : \E v \in Voxels(call.ps) : ret.inp[k][v] # Zero

WarpedDone == pc = "done" /\ call.fn = "get_warped_slice"

\* the extents of the two volumes, or the two patch shapes, differ by an odd
\* number of voxels along some axis
OddDifference(src, tsrc, ps, tps) ==
  \/ \E a \in Axes : (src.shape[a + 1] - tsrc.shape[a + 1]) % 2 # 0
  \/ \E a \in Axes : (ps[a] - tps[a]) % 2 # 0

OddWarpSlice ==
  /\ WarpSliceDone /\ HasChannelAxis /\ call.target_src # NoVol
  /\ OddDifference(call.inp_src, call.target_src, call.ps, call.target_ps)

OddWarped ==
  /\ WarpedDone /\ call.target_src # NoVol
  /\ OddDifference(call.inp_src, call.target_src, warped_ps(call.ps),
                   warped_target_ps(call.ps, call.target_src, call.target_ps))

\* the exception classes of the failures the spec calls Invalid Configuration
InvalidConfiguration == { "ValueError", "NotImplementedError", "AssertionError" }

CenteringError ==
  ret.kind = "ValueError" /\ ret.msg = "targets must be centered w.r.t. images"

\* C3 as stated: a call of warp_slice or get_warped_slice with a target and an
\* odd difference of extents or patch shapes fails with Invalid Configuration,
\* never with a different error kind.
C3_Original == (OddWarpSlice \/ OddWarped) => ret.kind \in InvalidConfiguration

\* C3 as amended: such a call never returns a result; it fails with the
\* Invalid Configuration error of the centering check once the checks before
\* it have passed, and with the Out-of-Bounds error of the primary box, which
\* is checked first, otherwise; get_warped_slice, which floors the volume
\* offset for the range of its centre, may also fail on that range first.
C3_Theorem ==
  (OddWarpSlice \/ OddWarped) =>
    /\ ret.kind # "ok"
    /\ ret.kind \in InvalidConfiguration \cup { "WarpingOOBError" }
    /\ ret.kind = "WarpingOOBError" => ret.msg = "Out of bounds"
    /\ (OddWarpSlice /\ ~BoxLeavesSource /\ ~call.last_ch_max_interp) => CenteringError
    /\ (OddWarped /\ ret.kind \in InvalidConfiguration) =>
         \/ CenteringError
         \/ ret.kind = "AssertionError" /\ ret.msg = "lo_pos < hi_pos"
         \/ ret.kind = "ValueError" /\ ret.msg = "low >= high"

\* patch shapes with an odd difference between volumes with an even one, the
\* primary box inside the source: the centering check raises
C3_Witness ==
  /\ OddWarpSlice /\ ~BoxLeavesSource /\ CenteringError
  /\ \A a \in Axes : (call.inp_src.shape[a + 1] - call.target_src.shape[a + 1]) % 2 = 0

\* get_warped_slice got as far as warp_slice with an odd difference
C3_WarpedReachesCheck == OddWarped /\ CenteringError

\* an "except handler:" clause around the call intercepts its failure
Intercepts(handler) == ret.kind # "ok" /\ issubclass(ret.kind, handler)

OutOfBoundsFailure ==
  ret.msg \in { "Out of bounds", "Out of bounds for target_src" }
InvalidConfigurationFailure ==
  ret.msg \in { "raw 3D form without a channel axis", "inp_src wrong dim/shape",
                "targets must be centered w.r.t. images", "no projective transform" }

\* C4 as stated: a handler for the Out-of-Bounds kind never intercepts an
\* Invalid Configuration failure of warp_slice, and a handler for the Invalid
\* Configuration kind never intercepts an Out-of-Bounds failure.
C4_Original ==
  WarpSliceDone =>
    /\ InvalidConfigurationFailure => ~Intercepts("WarpingOOBError")
    /\ OutOfBoundsFailure => \A h \in InvalidConfiguration : ~Intercepts(h)

\* C4 as amended: a handler for WarpingOOBError intercepts the Out-of-Bounds
\* failures and never an Invalid Configuration failure; handlers for
\* NotImplementedError and AssertionError never intercept an Out-of-Bounds
\* failure, but a handler for ValueError, the class of the centering failure,
\* intercepts it too, WarpingOOBError being a ValueError.
C4_Theorem ==
  WarpSliceDone =>
    /\ InvalidConfigurationFailure =>
         (ret.kind \in InvalidConfiguration /\ ~Intercepts("WarpingOOBError"))
    /\ OutOfBoundsFailure =>
         /\ Intercepts("WarpingOOBError")
         /\ Intercepts("ValueError")
         /\ ~Intercepts("NotImplementedError")
         /\ ~Intercepts("AssertionError")
    /\ CenteringError => Intercepts("ValueError")

\* an Out-of-Bounds failure that a handler for ValueError intercepts
C4_Witness == WarpSliceDone /\ OutOfBoundsFailure /\ Intercepts("ValueError")

C4_CenteringSeen == WarpSliceDone /\ CenteringError /\ ~Intercepts("WarpingOOBError")

TargetReturned == WarpSliceDone /\ ret.kind = "ok" /\ call.target_src # NoVol

\* C5: target channel k is resampled with the nearest-neighbour kernel if
\* target_discrete_ix is absent or contains k, and with the linear kernel
\* otherwise, never with the max kernel; a channel resampled nearest holds
\* voxels of the target volume unchanged.
C5_Theorem ==
  TargetReturned =>
    \A k \in 0 .. call.target_src.shape[1] - 1 :
      /\ ret.tkern[k] = IF call.target_discrete_ix.none \/ k \in call.target_discrete_ix.ix
                        THEN "nearest" ELSE "linear"
      /\ ret.tkern[k] # "max"
      /\ (ret.tkern[k] = "nearest" /\ call.target_vec_ix.none) =>
           \A t \in Voxels(call.target_ps) : ret.target[k][t].d = 1

\* a target with a discrete and a continuous channel, resampled between
\* voxels: the continuous channel holds an interpolated value
C5_Witness ==
  /\ TargetReturned /\ call.target_vec_ix.none /\ ~call.target_discrete_ix.none
  /\ \E k \in DOMAIN ret.tkern : ret.tkern[k] = "nearest"
  /\ \E k \in DOMAIN ret.tkern :
       /\ ret.tkern[k] = "linear"
       /\ \E t \in Voxels(call.target_ps) : ret.target[k][t].d > 1

\* the call as made, without target_vec_ix
WithoutVecIx ==
  warp_slice(call.inp_src, call.ps, call.M, call.target_src, call.target_ps, NoVec,
             call.target_discrete_ix, call.last_ch_max_interp, call.ksize)

\* the target with the channels of triple tr replaced by M's linear block
\* times their 3-vector
Reprojected(target, tr) ==
  [k \in DOMAIN target |->
     IF \E i \in Axes : tr[i] = k
     THEN [t \in DOMAIN target[k] |->
             lin_apply(call.M, [j \in Axes |-> target[tr[j]][t]])[CHOOSE i \in Axes : tr[i] = k]]
     ELSE target[k]]

VecIxCall ==
  /\ WarpSliceDone /\ HasChannelAxis /\ call.target_src # NoVol
  /\ ~call.target_vec_ix.none /\ Len(call.target_vec_ix.ix) = 1

\* C6: with target_vec_ix a list of channel triples and an affine M the
\* channels of each triple hold the product of M's linear block with the
\* interpolated 3-vector, the other channels keep their interpolated values;
\* with a projective M the call fails.
C6_Claim ==
  (VecIxCall /\ WithoutVecIx.kind = "ok") =>
    IF any_persp(call.M) THEN ret.kind # "ok"
    ELSE /\ ret.kind = "ok"
         /\ \A k \in DOMAIN ret.target : \A t \in DOMAIN ret.target[k] :
              ret.target[k][t] = Reprojected(WithoutVecIx.target, call.target_vec_ix.ix[1].v)[k][t]

\* the same for a triple given as a list [0, 1, 2], which the code handles
C6_ListTriples ==
  (VecIxCall /\ call.target_vec_ix.ix[1].seq = "list") => C6_Claim

C6_ListSeen ==
  /\ VecIxCall /\ call.target_vec_ix.ix[1].seq = "list" /\ ret.kind = "ok"
  /\ ~any_persp(call.M) /\ \E i \in Ix3 : \E j \in Ix3 : i # j /\ call.M.m[i][j] # 0

----------------------------------------------------------------------------
(* Properties of the matrix builders and samplers *)

\* M applied to a column vector of four rationals
Apply(M, v) ==
  stored([i \in Ix4 |-> RAdd(RAdd(RMul(Entry(M, i, 0), v[0]), RMul(Entry(M, i, 1), v[1])),
                             RAdd(RMul(Entry(M, i, 2), v[2]), RMul(Entry(M, i, 3), v[3])))])

\* the matrices of the list applied to v one after the other, the last first
RECURSIVE ApplyAll(_, _)
ApplyAll(mat_list, v) ==
  IF mat_list = << >> THEN v ELSE Apply(Head(mat_list), ApplyAll(Tail(mat_list), v))

TestVectors ==
  { [i \in Ix4 |-> IF i = j THEN One ELSE Zero] : j \in Ix4 }
  \cup { [i \in Ix4 |-> RInt(i + 1)], [i \in Ix4 |-> Rat(2 * i - 3, 2)] }

ChainDone == pc = "done" /\ call.fn = "chain_matrices"

\* C7: chain_matrices([A, B, C]) is the product A*B*C: applying the result to
\* a column vector v gives A(B(C(v))), the last matrix of the list applied
\* first; chain_matrices([]) is the identity.
C7_Theorem ==
  ChainDone =>
    /\ \A v \in TestVectors : Apply(mat, v) = ApplyAll(call.mat_list, v)
    /\ call.mat_list = << >> => mat = eye4

\* a product of three matrices that do not commute
C7_Witness ==
  /\ ChainDone /\ Len(call.mat_list) = 3
  /\ \E v \in TestVectors :
       Apply(mat, v) # ApplyAll(<<call.mat_list[3], call.mat_list[2], call.mat_list[1]>>, v)

Samplers == { "get_random_flipmat", "get_random_swapmat", "get_random_rotmat", "get_random_warpmat" }

\* C8: every random sampler and get_warped_slice is a function of its
\* arguments and of the state of the supplied rng only: run again with the
\* same arguments from the same rng state, it builds the same matrix.
C8_Claim ==
  (pc = "again" /\ call.fn \in Samplers \cup { "get_warped_slice" }) => mat = first.mat

\* the samplers that draw from the supplied rng do repeat
C8_SuppliedRngOnly ==
  (pc = "again" /\ call.fn \in { "get_random_flipmat", "get_random_swapmat", "get_random_rotmat" }) =>
    (mat = first.mat /\ ret = first.ret)

C8_Repeated ==
  /\ pc = "again" /\ call.fn \in { "get_random_flipmat", "get_random_swapmat", "get_random_rotmat" }
  /\ mat # eye4

WarpmatDone == pc = "done" /\ call.fn = "get_random_warpmat"

\* entry (i, j) of the perturbation, the returned matrix minus the identity,
\* as a numerator over mat.d
PerturbEntry(i, j) == mat.m[i][j] - (IF i = j THEN mat.d ELSE 0)

\* C9 as stated: the perturbation's last row and last column are entirely
\* zero unless perspective is requested, its first row and first column
\* whenever lock_z is set.
C9_Original ==
  WarpmatDone =>
    /\ ~call.perspective => \A j \in Ix4 : PerturbEntry(3, j) = 0 /\ PerturbEntry(j, 3) = 0
    /\ call.lock_z => \A j \in Ix4 : PerturbEntry(0, j) = 0 /\ PerturbEntry(j, 0) = 0

\* C9 as amended: the perturbation's last row is entirely zero unless
\* perspective is requested, and so is its bottom-right entry always (the
\* other entries of the last column keep their perturbation); its first row
\* and first column are entirely zero whenever lock_z is set.
C9_Theorem ==
  WarpmatDone =>
    /\ ~call.perspective => \A j \in Ix4 : PerturbEntry(3, j) = 0
    /\ PerturbEntry(3, 3) = 0
    /\ call.lock_z => \A j \in Ix4 : PerturbEntry(0, j) = 0 /\ PerturbEntry(j, 0) = 0

\* without perspective and with lock_z: a perturbed entry in the last column
\* and another inside the linear block
C9_Witness ==
  /\ WarpmatDone /\ ~call.perspective /\ call.lock_z
  /\ \E i \in 1 .. 2 : PerturbEntry(i, 3) # 0
  /\ \E i \in 1 .. 2 : \E j \in 1 .. 2 : PerturbEntry(i, j) # 0

\* the calls that construct a matrix
Constructs == pc \in { "done", "again" } /\ call.fn # "warp_slice"

BottomRightIsOne == mat.m[3][3] = mat.d

\* no matrix of the list has a perspective row
AffineList(mat_list) == \A i \in DOMAIN mat_list : ~any_persp(mat_list[i])

\* C10 as stated: every transform constructed has bottom-right entry 1:
\* builders, samplers, chain_matrices products, and the M of
\* get_tracing_slice and of get_warped_slice, perspective included.
C10_Original == Constructs => BottomRightIsOne

\* C10 as amended: the bottom-right entry is 1 for every builder and sampler
\* (get_random_warpmat with perspective included), for every chain_matrices
\* product of matrices without a perspective row, and for the M of
\* get_tracing_slice and of get_warped_slice without perspective or with
\* warp_amount 0; a product with a perspective row to the left of a
\* translation need not have it.
C10_Theorem ==
  (/\ Constructs
   /\ call.fn = "chain_matrices" => AffineList(call.mat_list)
   /\ call.fn = "get_warped_slice" => (~call.perspective \/ call.warp_amount = Zero))
    => BottomRightIsOne

\* get_warped_slice built an M with rotation and warp, without perspective
C10_Witness ==
  /\ pc = "done" /\ call.fn = "get_warped_slice" /\ ~call.perspective
  /\ call.warp_amount # Zero /\ ret.msg \notin { "lo_pos < hi_pos", "low >= high" }
  /\ mat # eye4 /\ mat.d > 1 /\ BottomRightIsOne

\* get_warped_slice with perspective built an M whose bottom-right entry is not 1
C10_PerspectiveOffOne ==
  /\ pc = "done" /\ call.fn = "get_warped_slice" /\ call.perspective /\ ~BottomRightIsOne

C10_PerspectiveSamplerSeen ==
  /\ WarpmatDone /\ call.perspective /\ any_persp(mat) /\ BottomRightIsOne

----------------------------------------------------------------------------
(* Properties of the kernels and of the assemblers *)

TracingReturned ==
  /\ pc = "done" /\ call.fn = "get_tracing_slice" /\ ret.kind = "ok" /\ ret.kern # NoArr

\* the kernels of the primary channels, the last one apart
LastChannelMax ==
  LET n_f == call.img.shape[1]
  IN  ret.kern[n_f - 1] = "max"
AllChannelsLinear == \A k \in DOMAIN ret.kern : ret.kern[k] = "linear"

\* C11: in get_tracing_slice with last_ch_max_interp enabled the kernel
\* half-size handed to warp_slice exceeds 0.5 for scale_factor below 1, and the
\* final primary channel is then resampled with the max kernel; for
\* scale_factor >= 1 the half-size is at most 0.5 and every primary channel is
\* resampled linearly.
C11_Claim ==
  (TracingReturned /\ call.last_ch_max_interp) =>
    IF RLt(call.scale_factor, One)
    THEN RLt(Half, tracing_ksize(call.scale_factor)) /\ LastChannelMax
    ELSE RLe(tracing_ksize(call.scale_factor), Half) /\ AllChannelsLinear

\* what the code does: the half-size never exceeds 0.5 and every primary
\* channel is resampled linearly, whatever scale_factor and the flag
C11_NeverMax ==
  TracingReturned => (RLe(tracing_ksize(call.scale_factor), Half) /\ AllChannelsLinear)

C11_DownsampledSeen ==
  TracingReturned /\ call.last_ch_max_interp /\ RLt(call.scale_factor, One)

\* a warp_slice call whose last primary channel goes through the max kernel
\* with half-size k >= 1, its box inside the source
MaxKernelCall ==
  /\ WarpSliceDone /\ HasChannelAxis /\ ~BoxLeavesSource
  /\ call.last_ch_max_interp /\ RLe(One, call.ksize)

\* the voxels of the sub-array src within half-width min(0.5, k/2) on axis 0
\* and k on axes 1 and 2 of the local coordinate coords - lo
Neighbourhood(src, coords, lo, k) ==
  LET kz == RMin(Half, RDiv(k, RInt(2)))
      near(q, a, h) == /\ RLe(RSub(RSub(coords[a], lo[a]), h), RInt(q))
                       /\ RLe(RInt(q), RAdd(RSub(coords[a], lo[a]), h))
  IN  {q \in Voxels(src.sh) : near(q[1], 1, kz) /\ near(q[2], 2, k) /\ near(q[3], 3, k)}

\* the voxel of the sub-array at the local coordinate, if there is one
MappedVoxel(src, coords, lo) ==
  {q \in Voxels(src.sh) : \A a \in Axes : RInt(q[a]) = RSub(coords[a], lo[a])}

\* A sub-array that is zero but for one voxel q holding the maximum gives that
\* maximum at an output voxel exactly when q is in the window read there, so
\* the maximum reaches every output voxel whose neighbourhood contains q iff
\* each neighbourhood lies in its window.
WindowsCoverNeighbourhoods(b, M_inv, divide, ps, inp_src, k) ==
  LET src == Cut(inp_src, inp_src.shape[1] - 1, b.lo, [a \in Axes |-> b.hi[a] + 1 - b.lo[a]])
      lo_f == stored([a \in Axes |-> RInt(b.lo[a])])
  IN  \A t \in make_dest_coords(ps) :
        LET coords == src_point(M_inv, divide, t)
            W == window_voxels(max_kernel_window(src, coords, lo_f, k))
        IN  /\ W # {}
            /\ Neighbourhood(src, coords, lo_f, k) \subseteq W
            /\ MappedVoxel(src, coords, lo_f) \subseteq W

EmptyWindowRaised ==
  ret.kind = "ValueError" /\ ret.msg = "zero-size array to reduction operation maximum"

\* C12: for kernel half-size k >= 1, map_coordinates_max_kernel writes the
\* maximum of a one-voxel source to every output voxel whose neighbourhood
\* (half-width min(0.5, k/2) on axis 0, k on axes 1 and 2, clamped to the
\* sub-array) contains that voxel; the window read is non-empty and includes
\* the voxel at the mapped coordinate.
C12_Claim ==
  MaxKernelCall =>
    /\ ~EmptyWindowRaised
    /\ WindowsCoverNeighbourhoods(Box, inv(call.M), any_persp(call.M), call.ps, call.inp_src, call.ksize)

\* what the code does at a translation by whole voxels: the first output row
\* maps to local u = 0, np.round takes both 0 and 0.5 to 0, the slice 0:0 is
\* empty and .max() raises
C12_WholeVoxelShiftRaises ==
  (MaxKernelCall /\ IntegerTranslation) => EmptyWindowRaised

C12_MaxKernelSeen == MaxKernelCall /\ IntegerTranslation

\* the centering offsets of the call's target: volume and patch
TargetOff == [a \in Axes |-> (call.inp_src.shape[a + 1] - call.target_src.shape[a + 1]) \div 2]
TargetOffPs == [a \in Axes |-> (call.ps[a] - call.target_ps[a]) \div 2]

\* the primary output voxel that goes with target output voxel t
PrimaryVoxel(t, off_ps) == <<t[1] + off_ps[1], t[2] + off_ps[2], t[3] + off_ps[3]>>

\* channel k of the whole target volume sampled with kernel at the primary's
\* source coordinate of voxel t + off_ps, shifted by off
SampledAtShifted(M_inv, divide, vol, off, off_ps, kernel, k, t) ==
  LET c == src_point(M_inv, divide, PrimaryVoxel(t, off_ps))
      shifted == stored([a \in Axes |-> RSub(c[a], RInt(off[a]))])
      whole == Cut(vol, k, <<0, 0, 0>>, Tail(vol.shape))
      origin == stored([a \in Axes |-> Zero])
  IN  resample(kernel, whole, shifted, origin, Zero)

TargetSampledAtShifted(M_inv, divide, off, off_ps) ==
  \A k \in DOMAIN ret.target : \A t \in Voxels(call.target_ps) :
    ret.target[k][t] = SampledAtShifted(M_inv, divide, call.target_src, off, off_ps, ret.tkern[k], k, t)

\* source and target hold the same ramp (up to the constant it takes over the
\* offset): a channel interpolated linearly in both then differs by that constant
SameRamp == call.inp_src.pat = 1 /\ call.target_src.pat = 1
RampOver(off, k) == Val(call.inp_src, k, off[1], off[2], off[3]) - Val(call.target_src, k, 0, 0, 0)
TargetFollowsPrimary(off, off_ps) ==
  \A k \in DOMAIN ret.target \cap DOMAIN ret.inp :
    (ret.tkern[k] = "linear" /\ ret.kern[k] = "linear") =>
      \A t \in Voxels(call.target_ps) :
        ret.target[k][t] = RSub(ret.inp[k][PrimaryVoxel(t, off_ps)], RInt(RampOver(off, k)))

\* C13: the target is sampled at the primary's source coordinates shifted by
\* the centering offset (local index src_coords[t + off_ps] - off - lo_targ
\* in the target sub-array), so target output voxel t and primary output voxel
\* t + off_ps sample the same location of the two centered volumes.
C13_Theorem ==
  (TargetReturned /\ call.target_vec_ix.none) =>
    /\ TargetSampledAtShifted(inv(call.M), any_persp(call.M), TargetOff, TargetOffPs)
    /\ SameRamp => TargetFollowsPrimary(TargetOff, TargetOffPs)

\* a target smaller than the source in volume and in patch, returned with a
\* linearly interpolated channel under a matrix that is no whole-voxel shift
C13_Witness ==
  /\ TargetReturned /\ call.target_vec_ix.none /\ SameRamp /\ ~IntegerTranslation
  /\ \E a \in Axes : TargetOff[a] > 0 /\ TargetOffPs[a] > 0
  /\ \E k \in DOMAIN ret.tkern : ret.tkern[k] = "linear"

\* every index the kernel of each channel reads, for each output voxel of
\* coords, lies in 0 .. hi - lo of the sub-array cut at lo : hi + 1
ReadsInside(vol, kern, coords, lo, hi, origin, ksize) ==
  \A k \in DOMAIN kern :
    LET src == Cut(vol, k, lo, [a \in Axes |-> hi[a] + 1 - lo[a]])
    IN  \A t \in DOMAIN coords :
          \A q \in kernel_reads(kern[k], src, coords[t], origin, ksize) :
            \A a \in Axes : 0 <= q[a] /\ q[a] <= hi[a] - lo[a]

PrimaryReadsInside(src_coords, corners) ==
  LET n_f == call.inp_src.shape[1]
      kern == [k \in 0 .. n_f - 1 |-> primary_kernel(k, n_f, call.last_ch_max_interp, call.ksize)]
      lo == bbox_lo(corners)
  IN  ReadsInside(call.inp_src, kern, src_coords, lo, bbox_hi(corners),
                  stored([a \in Axes |-> RInt(lo[a])]), call.ksize)

TargetReadsInside(src_coords_target, shifted, off) ==
  LET kern == [k \in 0 .. call.target_src.shape[1] - 1 |-> target_kernel(k, call.target_discrete_ix)]
      lo_targ == bbox_lo(shifted)
  IN  ReadsInside(call.target_src, kern, src_coords_target, lo_targ, bbox_hi(shifted),
                  target_origin(lo_targ, off), Zero)

\* the source coordinates of the output voxels of a patch, and of its corners
CoordsOf(M_inv, ps) == stored([t \in make_dest_coords(ps) |-> src_point(M_inv, FALSE, t)])
CornersOf(M_inv, ps) == {src_point(M_inv, FALSE, c) : c \in make_dest_corners(ps)}
TargetCoords(src_coords, off_ps) ==
  stored([t \in Voxels(call.target_ps) |-> src_coords[PrimaryVoxel(t, off_ps)]])
ShiftedBy(coords, off) ==
  {[a \in Axes |-> RSub(coords[t][a], RInt(off[a]))] : t \in DOMAIN coords}

AffineCall == WarpSliceDone /\ HasChannelAxis /\ ~any_persp(call.M)
PrimaryCheckPassed == ~(ret.kind = "WarpingOOBError" /\ ret.msg = "Out of bounds")
TargetCheckPassed ==
  call.target_src # NoVol /\ ret.kind \notin {"WarpingOOBError", "ValueError"}

\* no voxel of the arrays returned holds a value read outside a sub-array
NothingUndefined ==
  /\ \A k \in DOMAIN ret.inp : \A t \in DOMAIN ret.inp[k] : ret.inp[k][t] # Undef
  /\ \A k \in DOMAIN ret.target : \A t \in DOMAIN ret.target[k] : ret.target[k][t] # Undef

\* C14: whenever the bounding-box check of warp_slice passes for an affine M,
\* every index the kernels read lies inside the extracted sub-array: the
\* linear kernel's u0 and u0 + 1 within 0 .. hi - lo on the primary cut, the
\* nearest and linear kernels' indices within 0 .. hi_targ - lo_targ on the
\* target cut; no read wraps around or falls outside.
C14_Theorem ==
  AffineCall =>
    /\ PrimaryCheckPassed =>
         PrimaryReadsInside(CoordsOf(inv(call.M), call.ps), CornersOf(inv(call.M), call.ps))
    /\ TargetCheckPassed =>
         TargetReadsInside(TargetCoords(CoordsOf(inv(call.M), call.ps), TargetOffPs),
                           ShiftedBy(TargetCoords(CoordsOf(inv(call.M), call.ps), TargetOffPs), TargetOff),
                           TargetOff)
    /\ ret.kind = "ok" => NothingUndefined

\* an affine call that is no whole-voxel shift, returned with a target
\* resampled by the nearest and by the linear kernel
C14_Witness ==
  /\ AffineCall /\ ~IntegerTranslation /\ ret.kind = "ok" /\ TargetCheckPassed
  /\ \E k \in DOMAIN ret.tkern : ret.tkern[k] = "nearest"
  /\ \E k \in DOMAIN ret.tkern : ret.tkern[k] = "linear"

\* get_warped_slice asked for the un-warped patch: no warp, no anisotropy, no
\* x flip (hence no permutation), no target; the range of centres non-empty
UnwarpedCall ==
  /\ WarpedDone /\ call.warp_amount = Zero /\ call.aniso_factor = One
  /\ call.no_x_flip /\ call.target_src = NoVol
  /\ ret.kind \notin {"AssertionError", "ValueError"}

\* axis a of the patch is flipped, and its centre is the highest of the range:
\* M's translation, the source coordinate of output index 0, is then sh - 1
Flipped(a) == Entry(mat, a, a) = RInt(-1)
FlippedAtTop(a) == Flipped(a) /\ Entry(mat, a, 3) = RInt(call.inp_src.shape[a + 2] - 1)

\* C15: every centre get_warped_slice can sample is valid for the un-warped
\* patch: with warp_amount = 0, aniso_factor = 1, no_x_flip = True and no
\* target the call never raises Out-of-Bounds, for any sampled centre in
\* [lo_pos, hi_pos), any flip outcome and any patch shape, even or odd.
C15_Claim == UnwarpedCall => ret.kind # "WarpingOOBError"

\* what the code does: the call raises Out-of-Bounds exactly when a flipped
\* axis has its centre at the top of the range, and never without a flip
C15_RaisesWhenFlippedAtTop ==
  UnwarpedCall => (ret.kind = "WarpingOOBError" <=> \E a \in Ix3 : FlippedAtTop(a))

C15_FlippedReturned == UnwarpedCall /\ ret.kind = "ok" /\ \E a \in Ix3 : Flipped(a)

====
